---- MODULE Spec2Model ----
(***************************************************************************)
(* Model of the portfolio balance aggregation of package tinkoff:          *)
(* filterOperations / aggOperationsByFigi, the price resolver              *)
(* GetCurrentPrice, the per-instrument goroutine balanceItemToCh and the   *)
(* fan-out / fan-in collector of GetPortfolioBalance.                      *)
(*                                                                         *)
(* Money is an integer number of thousandths (1000 = 1.00), so that        *)
(* math.Round(100*x)/100 is a real rounding step; float64 representation   *)
(* error is not modelled.  An error value is a tuple of strings, the nil   *)
(* error is the empty tuple.                                               *)
(***************************************************************************)
EXTENDS Integers, Sequences, FiniteSets, TLC

VARIABLES
    pc,            \* position of GetPortfolioBalance: "start", "collect", "returned", "panic"
    request,       \* the TcfPortfolioBalanceRequest of the call
    operations,    \* the filtered operations returned by GetOperations
    aggOperations, \* map figi -> operations, from aggOperationsByFigi
    balance,       \* the TcfPortfolioBalance under construction
    i,             \* loop counter of the collection loop
    task,          \* one balanceItemToCh goroutine per key of aggOperations
    closed,        \* the deferred close of balanceItemsCh and errorCh has run
    retReport,     \* TRUE when the call returned a non-nil *TcfPortfolioBalance
    retErr,        \* the error returned by the call (Nil when none)
    elapsed,       \* seconds since the timer of the current select was created
    sinceStart,    \* seconds since the collection loop was entered
    recvLog,       \* history: figis in the order their message was received
    producedErrs,  \* history: error values produced by collaborators / resolver
    fetched,       \* history: the operations acc.Client.Operations returned, unfiltered
    flt,           \* filterOperations run on its own: [ops, criteria, res, done]
    resolver,      \* GetCurrentPrice run on its own: [r, log], log the candle responses
    grouper,       \* aggOperationsByFigi run on its own: [ops, agg, done]
    builder,       \* the item builder run on its own: [figi, ops, instrument, price, item, done]
    opsCall        \* GetOperations run on its own: [req, opsResp, portResp, portfolioFetched, res, done]

pipelineVars == <<pc, request, operations, aggOperations, balance, i, task, closed,
                  retReport, retErr, elapsed, sinceStart, recvLog, producedErrs, fetched>>
vars == <<pipelineVars, flt, resolver, grouper, builder, opsCall>>

-----------------------------------------------------------------------------
(* Bounds of the model *)

MaxOps == 2          \* longest operation list returned by the collaborator
MaxFilterOps == 3    \* longest operation list in the filterOperations harness
MaxGroupOps == 3     \* longest operation list in the aggOperationsByFigi harness
MaxBuilderOps == 3   \* longest operation list in the item builder harness
MaxCallOps == 2      \* longest operation list in the GetOperations harness
MaxCandles == 2     \* most candles in one candle response
TickSec == 5         \* seconds the clock advances per tick

(* Program constants *)

TimeoutSec == 20     \* time.After(20 * time.Second)
NumWindows == 3      \* len(requests) in GetCurrentPrice

-----------------------------------------------------------------------------
(* Values *)

Nil == << >>
TimeoutError == <<"Timeout error">>
PriceUnavailable(figi) == <<"Current price cannot be determined for FIGI", figi>>
ErrOperations == <<"operations fetch failed">>
ErrPortfolio == <<"portfolio fetch failed">>
ErrCandles(figi) == <<"candles fetch failed", figi>>
ErrMeta(figi) == <<"instrument fetch failed", figi>>

Figis == {"A", "B"}
SeededCurrencies == {"RUB", "USD", "EUR"}
Currencies == {"RUB", "USD", "GBP"}

Op(figi, status, type, cur, pay, comm, qty) ==
    [FIGI |-> figi, Status |-> status, OperationType |-> type, Currency |-> cur,
     Payment |-> pay, Commission |-> comm, Quantity |-> qty]

\* the operations the collaborator returns to GetPortfolioBalance are drawn from
PipelinePool ==
    { Op("A", "Done", "Buy", "RUB", -1000000, -5000, 10),
      Op("B", "Done", "Dividend", "USD", 20005, 0, 0),
      Op("B", "Decline", "Buy", "USD", -300000, -1500, 3),
      Op("", "Done", "ServiceCommission", "RUB", -99000, 0, 0),
      Op("", "Done", "TaxBack", "RUB", 13005, 0, 0),
      Op("", "Done", "TaxBack", "GBP", 13000, 0, 0) }

\* the operations filterOperations is applied to on its own are drawn from
OperationPool ==
    { Op("A", "Done", "Buy", "RUB", -1000000, -5000, 10),
      Op("A", "Done", "Sell", "RUB", 600000, -3000, 15),
      Op("B", "Done", "Dividend", "USD", 20005, 0, 0),
      Op("B", "Decline", "Buy", "USD", -300000, -1500, 3),
      Op("", "Done", "ServiceCommission", "RUB", -99000, 0, 0),
      Op("", "Done", "TaxBack", "GBP", 13000, 0, 0) }

RECURSIVE SeqsUpTo(_, _)
SeqsUpTo(S, n) ==
    IF n = 0 THEN { << >> }
    ELSE LET shorter == SeqsUpTo(S, n - 1)
         IN shorter \cup { Append(s, x) : s \in shorter, x \in S }

EmptyMap == [k \in {} |-> 0]
MapPut(m, k, v) == [x \in (DOMAIN m) \cup {k} |-> IF x = k THEN v ELSE m[x]]

-----------------------------------------------------------------------------
(* Operation Filter / Aggregator *)

contains(slice, item) == \E k \in 1..Len(slice) : slice[k] = item

NilCriteria == [isNil |-> TRUE]
Criteria(figis, status, types, exclude) ==
    [isNil |-> FALSE, FIGIs |-> figis, Status |-> status,
     OperationTypes |-> types, ExcludeFIGIs |-> exclude]

\* mutant: the test of criteria.ExcludeFIGIs is missing from the condition
Matches_noExclude(oper, criteria) ==
    /\ (Len(criteria.FIGIs) = 0 \/ contains(criteria.FIGIs, oper.FIGI))
    /\ (criteria.Status = "" \/ oper.Status = criteria.Status)
    /\ (Len(criteria.OperationTypes) = 0
            \/ contains(criteria.OperationTypes, oper.OperationType))

\* the condition of the if statement inside the loop of filterOperations
Matches(oper, criteria) ==
    /\ (Len(criteria.FIGIs) = 0 \/ contains(criteria.FIGIs, oper.FIGI))
    /\ (criteria.Status = "" \/ oper.Status = criteria.Status)
    /\ (Len(criteria.OperationTypes) = 0
            \/ contains(criteria.OperationTypes, oper.OperationType))
    /\ (Len(criteria.ExcludeFIGIs) = 0 \/ ~contains(criteria.ExcludeFIGIs, oper.FIGI))

\* the range loop of filterOperations: k is the index reached, res the slice so far
RECURSIVE filterLoop(_, _, _, _)
filterLoop(ops, criteria, k, res) ==
    IF k > Len(ops) THEN res
    ELSE filterLoop(ops, criteria, k + 1,
                    IF Matches(ops[k], criteria) THEN Append(res, ops[k]) ELSE res)

RECURSIVE filterLoopPrepend(_, _, _, _)
filterLoopPrepend(ops, criteria, k, res) ==
    IF k > Len(ops) THEN res
    ELSE filterLoopPrepend(ops, criteria, k + 1,
                    IF Matches(ops[k], criteria) THEN <<ops[k]>> \o res ELSE res)

\* mutant: kept operations are put in front of the result instead of appended
filterOperations_prepend(ops, criteria) ==
    IF criteria.isNil THEN << >> ELSE filterLoopPrepend(ops, criteria, 1, << >>)

filterOperations(ops, criteria) ==
    IF criteria.isNil THEN << >> ELSE filterLoop(ops, criteria, 1, << >>)

RECURSIVE aggLoop(_, _, _)
aggLoop(ops, k, agg) ==
    IF k > Len(ops) THEN agg
    ELSE LET oper == ops[k]
             prev == IF oper.FIGI \in DOMAIN agg THEN agg[oper.FIGI] ELSE << >>
         IN aggLoop(ops, k + 1,
                    IF oper.FIGI # "" THEN MapPut(agg, oper.FIGI, Append(prev, oper))
                    ELSE agg)

RECURSIVE aggLoopAll(_, _, _)
aggLoopAll(ops, k, agg) ==
    IF k > Len(ops) THEN agg
    ELSE LET oper == ops[k]
             prev == IF oper.FIGI \in DOMAIN agg THEN agg[oper.FIGI] ELSE << >>
         IN aggLoopAll(ops, k + 1, MapPut(agg, oper.FIGI, Append(prev, oper)))

RECURSIVE aggLoopFront(_, _, _)
aggLoopFront(ops, k, agg) ==
    IF k > Len(ops) THEN agg
    ELSE LET oper == ops[k]
             prev == IF oper.FIGI \in DOMAIN agg THEN agg[oper.FIGI] ELSE << >>
         IN aggLoopFront(ops, k + 1,
                    IF oper.FIGI # "" THEN MapPut(agg, oper.FIGI, <<oper>> \o prev)
                    ELSE agg)

\* mutant: an operation is put in front of its group instead of appended
aggOperationsByFigi_front(ops) == aggLoopFront(ops, 1, EmptyMap)

\* mutant: the test oper.FIGI != "" is missing
aggOperationsByFigi_keepEmpty(ops) == aggLoopAll(ops, 1, EmptyMap)

aggOperationsByFigi(ops) == aggLoop(ops, 1, EmptyMap)

-----------------------------------------------------------------------------
(* Price Resolver *)

Candle(ts, close) == [TS |-> ts, ClosePrice |-> close]

CandlePool ==
    { Candle(1, 0), Candle(1, 95000), Candle(2, 0), Candle(2, 120000), Candle(2, 95000) }

\* what acc.Client.Candles can return: an error, or a list of candles
CandleOk(candles) == [err |-> Nil, candles |-> candles]
CandleFail(e) == [err |-> e, candles |-> << >>]
CandleResponses(figi) ==
    { CandleFail(ErrCandles(figi)) }
        \cup { CandleOk(cs) : cs \in SeqsUpTo(CandlePool, MaxCandles) }

\* the candle responses drawn inside GetPortfolioBalance: a failure, no candles,
\* a latest candle with a zero close, a latest candle with a nonzero close
PipelineCandleResponses(figi) ==
    { CandleFail(ErrCandles(figi)), CandleOk(<< >>),
      CandleOk(<<Candle(2, 0), Candle(1, 95000)>>),
      CandleOk(<<Candle(1, 95000), Candle(2, 120000)>>) }

\* one insertion of sort.SliceStable with less(i, j) = candles[i].TS.After(candles[j].TS)
InsertStable(sorted, c) ==
    SelectSeq(sorted, LAMBDA x : x.TS >= c.TS) \o <<c>>
        \o SelectSeq(sorted, LAMBDA x : x.TS < c.TS)

RECURSIVE SliceStable(_, _, _)
SliceStable(candles, k, sorted) ==
    IF k > Len(candles) THEN sorted
    ELSE SliceStable(candles, k + 1, InsertStable(sorted, candles[k]))

InsertStableAsc(sorted, c) ==
    SelectSeq(sorted, LAMBDA x : x.TS <= c.TS) \o <<c>>
        \o SelectSeq(sorted, LAMBDA x : x.TS > c.TS)

RECURSIVE SliceStableAsc(_, _, _)
SliceStableAsc(candles, k, sorted) ==
    IF k > Len(candles) THEN sorted
    ELSE SliceStableAsc(candles, k + 1, InsertStableAsc(sorted, candles[k]))

\* mutant: the comparison is Before instead of After (oldest candle first)
candleLatest_oldest(candles) ==
    LET sorted == SliceStableAsc(candles, 1, << >>)
    IN IF Len(sorted) > 0 THEN <<sorted[1]>> ELSE << >>

\* mutant: the latest candle among those with a nonzero close is returned
candleLatest_nonzero(candles) ==
    LET sorted == SliceStable(SelectSeq(candles, LAMBDA c : c.ClosePrice # 0), 1, << >>)
    IN IF Len(sorted) > 0 THEN <<sorted[1]>> ELSE << >>

\* the *sdk.Candle returned: << >> is nil, <<c>> a pointer to candle c
candleLatest(candles) ==
    LET sorted == SliceStable(candles, 1, << >>)
    IN IF Len(sorted) > 0 THEN <<sorted[1]>> ELSE << >>

\* state of one GetCurrentPrice call: w is the index of the request the range
\* loop is at, tried the windows fetched so far
ResolverStart == [w |-> 1, tried |-> << >>, price |-> 0, err |-> Nil, done |-> FALSE]

\* mutant: a failed fetch is treated like a window without data
GetCurrentPriceStep_skipError(r, figi, resp) ==
    LET candle == candleLatest(resp.candles)
        tried == Append(r.tried, r.w)
    IN IF resp.err = Nil /\ candle # << >> /\ candle[1].ClosePrice # 0
       THEN [r EXCEPT !.tried = tried, !.price = candle[1].ClosePrice, !.done = TRUE]
       ELSE IF r.w = NumWindows
       THEN [r EXCEPT !.tried = tried, !.w = r.w + 1,
                      !.err = PriceUnavailable(figi), !.done = TRUE]
       ELSE [r EXCEPT !.tried = tried, !.w = r.w + 1]

\* mutant: after the last window the resolver returns 0.0 and no error
GetCurrentPriceStep_zeroPrice(r, figi, resp) ==
    LET candle == candleLatest(resp.candles)
        tried == Append(r.tried, r.w)
    IN IF resp.err # Nil
       THEN [r EXCEPT !.tried = tried, !.err = resp.err, !.done = TRUE]
       ELSE IF candle # << >> /\ candle[1].ClosePrice # 0
       THEN [r EXCEPT !.tried = tried, !.price = candle[1].ClosePrice, !.done = TRUE]
       ELSE IF r.w = NumWindows
       THEN [r EXCEPT !.tried = tried, !.w = r.w + 1, !.done = TRUE]
       ELSE [r EXCEPT !.tried = tried, !.w = r.w + 1]

\* one iteration of the range loop of GetCurrentPrice, with the response resp of
\* acc.Client.Candles; leaving the loop after the last request returns the
\* "Current price cannot be determined" error
GetCurrentPriceStep(r, figi, resp) ==
    LET candle == candleLatest(resp.candles)
        tried == Append(r.tried, r.w)
    IN IF resp.err # Nil
       THEN [r EXCEPT !.tried = tried, !.err = resp.err, !.done = TRUE]
       ELSE IF candle # << >> /\ candle[1].ClosePrice # 0
       THEN [r EXCEPT !.tried = tried, !.price = candle[1].ClosePrice, !.done = TRUE]
       ELSE IF r.w = NumWindows
       THEN [r EXCEPT !.tried = tried, !.w = r.w + 1,
                      !.err = PriceUnavailable(figi), !.done = TRUE]
       ELSE [r EXCEPT !.tried = tried, !.w = r.w + 1]


-----------------------------------------------------------------------------
(* Balance Item Builder *)

Abs(x) == IF x < 0 THEN -x ELSE x

\* math.Round(100*x)/100 on thousandths: to the nearest hundredth, halves away from zero
Round2(x) == IF x >= 0 THEN ((x + 5) \div 10) * 10 ELSE -(((-x + 5) \div 10) * 10)

RECURSIVE SumTo(_, _)
SumTo(s, k) == IF k = 0 THEN 0 ELSE SumTo(s, k - 1) + s[k]
Sum(s) == SumTo(s, Len(s))

\* what acc.GetByFigi can return: an error, or the instrument of that figi
InstrumentResponses(figi) ==
    { [err |-> ErrMeta(figi), FIGI |-> "", Currency |-> ""] }
        \cup { [err |-> Nil, FIGI |-> figi, Currency |-> c] : c \in Currencies }

createBalanceItem(instrument) ==
    [FIGI |-> instrument.FIGI, Currency |-> instrument.Currency,
     BalanceAmount |-> 0, OperationAmount |-> 0, BrokerCommissionAmount |-> 0,
     CurrentPrice |-> 0, PortfolioQuantity |-> 0, PortfolioAmount |-> 0,
     DividendAmount |-> 0, DividendTaxAmount |-> 0, ServiceCommissionAmount |-> 0]

NoItem == createBalanceItem([FIGI |-> "", Currency |-> ""])

OfTypes(ops, types) == filterOperations(ops, Criteria(<< >>, "", types, << >>))

\* the quantity when the clamp is inside the loop over the trades
RECURSIVE clampedQuantity(_, _, _)
clampedQuantity(trades, k, q) ==
    IF k > Len(trades) THEN q
    ELSE LET next == q + (IF trades[k].OperationType = "Sell" THEN -1 ELSE 1)
                             * trades[k].Quantity
         IN clampedQuantity(trades, k + 1, IF next < 0 THEN 0 ELSE next)

\* mutant: the quantity is clamped after every operation instead of once
buildBalanceItem_clampEach(figi, ops, instrument, currentPrice) ==
    LET figiOperations == filterOperations(ops, Criteria(<<figi>>, "", << >>, << >>))
        trades == OfTypes(figiOperations, <<"Buy", "BuyCard", "Sell">>)
        sign(o) == IF o.OperationType = "Sell" THEN -1 ELSE 1
        commission == Sum([k \in 1..Len(trades) |-> Abs(trades[k].Commission)])
        amount == Sum([k \in 1..Len(trades) |-> sign(trades[k]) * Abs(trades[k].Payment)])
        quantity == clampedQuantity(trades, 1, 0)
        portfolio == quantity * currentPrice
        dividends == OfTypes(figiOperations, <<"Dividend">>)
        dividend == Sum([k \in 1..Len(dividends) |-> Abs(dividends[k].Payment)])
        taxes == OfTypes(figiOperations, <<"TaxDividend">>)
        tax == Sum([k \in 1..Len(taxes) |-> Abs(taxes[k].Payment)])
        item == [createBalanceItem(instrument) EXCEPT
                    !.CurrentPrice = currentPrice,
                    !.BrokerCommissionAmount = Round2(commission),
                    !.OperationAmount = Round2(amount),
                    !.PortfolioQuantity = quantity,
                    !.PortfolioAmount = Round2(portfolio),
                    !.DividendAmount = Round2(dividend),
                    !.DividendTaxAmount = Round2(tax)]
    IN [item EXCEPT !.BalanceAmount =
            Round2(item.PortfolioAmount + item.DividendAmount - item.DividendTaxAmount
                   - item.OperationAmount - item.BrokerCommissionAmount)]

\* mutant: BalanceAmount is computed from the accumulators before their rounding
buildBalanceItem_unrounded(figi, ops, instrument, currentPrice) ==
    LET figiOperations == filterOperations(ops, Criteria(<<figi>>, "", << >>, << >>))
        trades == OfTypes(figiOperations, <<"Buy", "BuyCard", "Sell">>)
        sign(o) == IF o.OperationType = "Sell" THEN -1 ELSE 1
        commission == Sum([k \in 1..Len(trades) |-> Abs(trades[k].Commission)])
        amount == Sum([k \in 1..Len(trades) |-> sign(trades[k]) * Abs(trades[k].Payment)])
        netQty == Sum([k \in 1..Len(trades) |-> sign(trades[k]) * trades[k].Quantity])
        quantity == IF netQty < 0 THEN 0 ELSE netQty
        portfolio == quantity * currentPrice
        dividends == OfTypes(figiOperations, <<"Dividend">>)
        dividend == Sum([k \in 1..Len(dividends) |-> Abs(dividends[k].Payment)])
        taxes == OfTypes(figiOperations, <<"TaxDividend">>)
        tax == Sum([k \in 1..Len(taxes) |-> Abs(taxes[k].Payment)])
        item == [createBalanceItem(instrument) EXCEPT
                    !.CurrentPrice = currentPrice,
                    !.BrokerCommissionAmount = Round2(commission),
                    !.OperationAmount = Round2(amount),
                    !.PortfolioQuantity = quantity,
                    !.PortfolioAmount = Round2(portfolio),
                    !.DividendAmount = Round2(dividend),
                    !.DividendTaxAmount = Round2(tax)]
    IN [item EXCEPT !.BalanceAmount =
            Round2(portfolio + dividend - tax - amount - commission)]

\* mutant: the payment of a Sell is added to OperationAmount like that of a Buy
buildBalanceItem_sellAdds(figi, ops, instrument, currentPrice) ==
    LET figiOperations == filterOperations(ops, Criteria(<<figi>>, "", << >>, << >>))
        trades == OfTypes(figiOperations, <<"Buy", "BuyCard", "Sell">>)
        sign(o) == IF o.OperationType = "Sell" THEN -1 ELSE 1
        commission == Sum([k \in 1..Len(trades) |-> Abs(trades[k].Commission)])
        amount == Sum([k \in 1..Len(trades) |-> Abs(trades[k].Payment)])
        netQty == Sum([k \in 1..Len(trades) |-> sign(trades[k]) * trades[k].Quantity])
        quantity == IF netQty < 0 THEN 0 ELSE netQty
        portfolio == quantity * currentPrice
        dividends == OfTypes(figiOperations, <<"Dividend">>)
        dividend == Sum([k \in 1..Len(dividends) |-> Abs(dividends[k].Payment)])
        taxes == OfTypes(figiOperations, <<"TaxDividend">>)
        tax == Sum([k \in 1..Len(taxes) |-> Abs(taxes[k].Payment)])
        item == [createBalanceItem(instrument) EXCEPT
                    !.CurrentPrice = currentPrice,
                    !.BrokerCommissionAmount = Round2(commission),
                    !.OperationAmount = Round2(amount),
                    !.PortfolioQuantity = quantity,
                    !.PortfolioAmount = Round2(portfolio),
                    !.DividendAmount = Round2(dividend),
                    !.DividendTaxAmount = Round2(tax)]
    IN [item EXCEPT !.BalanceAmount =
            Round2(item.PortfolioAmount + item.DividendAmount - item.DividendTaxAmount
                   - item.OperationAmount - item.BrokerCommissionAmount)]

\* the body of the goroutine of balanceItemToCh after both fetches succeeded
buildBalanceItem(figi, ops, instrument, currentPrice) ==
    LET figiOperations == filterOperations(ops, Criteria(<<figi>>, "", << >>, << >>))
        trades == OfTypes(figiOperations, <<"Buy", "BuyCard", "Sell">>)
        sign(o) == IF o.OperationType = "Sell" THEN -1 ELSE 1
        commission == Sum([k \in 1..Len(trades) |-> Abs(trades[k].Commission)])
        amount == Sum([k \in 1..Len(trades) |-> sign(trades[k]) * Abs(trades[k].Payment)])
        netQty == Sum([k \in 1..Len(trades) |-> sign(trades[k]) * trades[k].Quantity])
        quantity == IF netQty < 0 THEN 0 ELSE netQty
        portfolio == quantity * currentPrice
        dividends == OfTypes(figiOperations, <<"Dividend">>)
        dividend == Sum([k \in 1..Len(dividends) |-> Abs(dividends[k].Payment)])
        taxes == OfTypes(figiOperations, <<"TaxDividend">>)
        tax == Sum([k \in 1..Len(taxes) |-> Abs(taxes[k].Payment)])
        item == [createBalanceItem(instrument) EXCEPT
                    !.CurrentPrice = currentPrice,
                    !.BrokerCommissionAmount = Round2(commission),
                    !.OperationAmount = Round2(amount),
                    !.PortfolioQuantity = quantity,
                    !.PortfolioAmount = Round2(portfolio),
                    !.DividendAmount = Round2(dividend),
                    !.DividendTaxAmount = Round2(tax)]
    IN [item EXCEPT !.BalanceAmount =
            Round2(item.PortfolioAmount + item.DividendAmount - item.DividendTaxAmount
                   - item.OperationAmount - item.BrokerCommissionAmount)]

-----------------------------------------------------------------------------
(* GetOperations *)

Requests ==
    { [ForPortfolio |-> fp, ExcludeFIGIs |-> ex] :
        fp \in BOOLEAN, ex \in { << >>, <<"B">> } }

NoRequest == [ForPortfolio |-> FALSE, ExcludeFIGIs |-> << >>]

\* what acc.Client.Operations can return
OperationsResponses ==
    { [err |-> ErrOperations, ops |-> << >>] }
        \cup { [err |-> Nil, ops |-> ops] : ops \in SeqsUpTo(PipelinePool, MaxOps) }

\* what acc.Client.Portfolio can return: an error, or the figis of the positions
PortfolioResponses ==
    { [err |-> ErrPortfolio, positions |-> << >>] }
        \cup { [err |-> Nil, positions |-> p] : p \in { << >>, <<"A">>, <<"A", "B">> } }

\* mutant: a collaborator error is wrapped before it is returned
GetOperations_wrap(req, opsResp, portResp) ==
    IF opsResp.err # Nil
    THEN [err |-> <<"GetOperations">> \o opsResp.err, ops |-> << >>]
    ELSE IF req.ForPortfolio /\ portResp.err # Nil
    THEN [err |-> <<"GetOperations">> \o portResp.err, ops |-> << >>]
    ELSE LET figis == IF req.ForPortfolio THEN <<"">> \o portResp.positions ELSE << >>
             criteria == Criteria(figis, "Done", << >>, req.ExcludeFIGIs)
         IN [err |-> Nil, ops |-> filterOperations(opsResp.ops, criteria)]

\* mutant: request.ExcludeFIGIs is not copied into the criteria
GetOperations_noExclude(req, opsResp, portResp) ==
    IF opsResp.err # Nil THEN [err |-> opsResp.err, ops |-> << >>]
    ELSE IF req.ForPortfolio /\ portResp.err # Nil
    THEN [err |-> portResp.err, ops |-> << >>]
    ELSE LET figis == IF req.ForPortfolio THEN <<"">> \o portResp.positions ELSE << >>
             criteria == Criteria(figis, "Done", << >>, << >>)
         IN [err |-> Nil, ops |-> filterOperations(opsResp.ops, criteria)]

\* mutant: the criteria has no Status
GetOperations_anyStatus(req, opsResp, portResp) ==
    IF opsResp.err # Nil THEN [err |-> opsResp.err, ops |-> << >>]
    ELSE IF req.ForPortfolio /\ portResp.err # Nil
    THEN [err |-> portResp.err, ops |-> << >>]
    ELSE LET figis == IF req.ForPortfolio THEN <<"">> \o portResp.positions ELSE << >>
             criteria == Criteria(figis, "", << >>, req.ExcludeFIGIs)
         IN [err |-> Nil, ops |-> filterOperations(opsResp.ops, criteria)]

\* mutant: the empty id is not put in front of the positions' ids
GetOperations_noEmptyFigi(req, opsResp, portResp) ==
    IF opsResp.err # Nil THEN [err |-> opsResp.err, ops |-> << >>]
    ELSE IF req.ForPortfolio /\ portResp.err # Nil
    THEN [err |-> portResp.err, ops |-> << >>]
    ELSE LET figis == IF req.ForPortfolio THEN portResp.positions ELSE << >>
             criteria == Criteria(figis, "Done", << >>, req.ExcludeFIGIs)
         IN [err |-> Nil, ops |-> filterOperations(opsResp.ops, criteria)]

\* acc.Client.Portfolio is called: only inside if request.ForPortfolio, which is
\* reached only when acc.Client.Operations returned no error
PortfolioFetched(req, opsResp) == opsResp.err = Nil /\ req.ForPortfolio

\* the result (operations, err) of GetOperations; portResp is used only when
\* request.ForPortfolio is set
GetOperations(req, opsResp, portResp) ==
    IF opsResp.err # Nil THEN [err |-> opsResp.err, ops |-> << >>]
    ELSE IF req.ForPortfolio /\ portResp.err # Nil
    THEN [err |-> portResp.err, ops |-> << >>]
    ELSE LET figis == IF req.ForPortfolio THEN <<"">> \o portResp.positions ELSE << >>
             criteria == Criteria(figis, "Done", << >>, req.ExcludeFIGIs)
         IN [err |-> Nil, ops |-> filterOperations(opsResp.ops, criteria)]

-----------------------------------------------------------------------------
(* Total Roll-up *)

ZeroTotal ==
    [BalanceAmount |-> 0, ServiceCommissionAmount |-> 0, TaxBack |-> 0, PortfolioAmount |-> 0]

\* mutant: EUR is missing from the seeded currencies
createEmptyBalance_noEUR ==
    [Items |-> << >>, Total |-> [c \in {"RUB", "USD"} |-> ZeroTotal]]

createEmptyBalance ==
    [Items |-> << >>, Total |-> [c \in SeededCurrencies |-> ZeroTotal]]

\* balance.Total.Currencies[c] is a nil pointer when c was never put in the map
HasTotal(bal, c) == c \in DOMAIN bal.Total

\* mutant: the received item is put in front of balance.Items
addItem_prepend(bal, item) ==
    [Items |-> <<item>> \o bal.Items,
     Total |-> [bal.Total EXCEPT
                  ![item.Currency].BalanceAmount = @ + item.BalanceAmount,
                  ![item.Currency].PortfolioAmount = @ + item.PortfolioAmount]]

\* mutant: the amounts of the received item replace the totals instead of
\* being added to them
addItem_overwrite(bal, item) ==
    [Items |-> Append(bal.Items, item),
     Total |-> [bal.Total EXCEPT
                  ![item.Currency].BalanceAmount = item.BalanceAmount,
                  ![item.Currency].PortfolioAmount = item.PortfolioAmount]]

\* the case balanceItem := <-balanceItemsCh of the select
addItem(bal, item) ==
    [Items |-> Append(bal.Items, item),
     Total |-> [bal.Total EXCEPT
                  ![item.Currency].BalanceAmount = @ + item.BalanceAmount,
                  ![item.Currency].PortfolioAmount = @ + item.PortfolioAmount]]

\* the two adjustment loops: state is [panic, bal]; a nil total stops the call
RECURSIVE serviceCommissionLoop(_, _, _)
serviceCommissionLoop(ops, k, st) ==
    IF k > Len(ops) \/ st.panic THEN st
    ELSE LET c == ops[k].Currency
             pay == Abs(ops[k].Payment)
         IN IF ~HasTotal(st.bal, c) THEN [st EXCEPT !.panic = TRUE]
            ELSE serviceCommissionLoop(ops, k + 1,
                    [st EXCEPT !.bal.Total[c].ServiceCommissionAmount = @ + pay,
                               !.bal.Total[c].BalanceAmount = @ - pay])

RECURSIVE taxBackLoop(_, _, _)
taxBackLoop(ops, k, st) ==
    IF k > Len(ops) \/ st.panic THEN st
    ELSE LET c == ops[k].Currency
             pay == Abs(ops[k].Payment)
         IN IF ~HasTotal(st.bal, c) THEN [st EXCEPT !.panic = TRUE]
            ELSE taxBackLoop(ops, k + 1,
                    [st EXCEPT !.bal.Total[c].TaxBack = @ + pay,
                               !.bal.Total[c].BalanceAmount = @ + pay])

roundTotals(bal) ==
    [bal EXCEPT !.Total = [c \in DOMAIN bal.Total |->
        [BalanceAmount |-> Round2(bal.Total[c].BalanceAmount),
         ServiceCommissionAmount |-> Round2(bal.Total[c].ServiceCommissionAmount),
         TaxBack |-> Round2(bal.Total[c].TaxBack),
         PortfolioAmount |-> Round2(bal.Total[c].PortfolioAmount)]]]

\* mutant: every adjustment payment is rounded before it is added to its total
rollUp_roundEach(bal, ops) ==
    LET rounded == [k \in 1..Len(ops) |-> [ops[k] EXCEPT !.Payment = Round2(@)]]
        afterCommission ==
            serviceCommissionLoop(OfTypes(rounded, <<"ServiceCommission">>), 1,
                                  [panic |-> FALSE, bal |-> bal])
        afterTaxBack == taxBackLoop(OfTypes(rounded, <<"TaxBack">>), 1, afterCommission)
    IN IF afterTaxBack.panic THEN afterTaxBack
       ELSE [panic |-> FALSE, bal |-> roundTotals(afterTaxBack.bal)]

\* GetPortfolioBalance after the collection loop: [panic, bal]
rollUp(bal, ops) ==
    LET afterCommission ==
            serviceCommissionLoop(OfTypes(ops, <<"ServiceCommission">>), 1,
                                  [panic |-> FALSE, bal |-> bal])
        afterTaxBack == taxBackLoop(OfTypes(ops, <<"TaxBack">>), 1, afterCommission)
    IN IF afterTaxBack.panic THEN afterTaxBack
       ELSE [panic |-> FALSE, bal |-> roundTotals(afterTaxBack.bal)]


-----------------------------------------------------------------------------
(* History helpers: what a candle response holds, judged from the data alone *)

\* index of the candle with the latest timestamp, the first of them on a tie
IsLatestAt(candles, k) ==
    /\ k \in 1..Len(candles)
    /\ \A j \in 1..Len(candles) : candles[j].TS <= candles[k].TS
    /\ \A j \in 1..(k - 1) : candles[j].TS < candles[k].TS

RespClass(resp) ==
    IF resp.err # Nil THEN "error"
    ELSE IF \E k \in 1..Len(resp.candles) :
                IsLatestAt(resp.candles, k) /\ resp.candles[k].ClosePrice # 0
    THEN "usable"
    ELSE "nodata"

\* the error values the collaborator calls of GetOperations handed back
FetchErrs(req, opsResp, portResp) ==
    IF opsResp.err # Nil THEN {opsResp.err}
    ELSE IF req.ForPortfolio /\ portResp.err # Nil THEN {portResp.err}
    ELSE {}

-----------------------------------------------------------------------------
(* The goroutine of balanceItemToCh *)

TaskStart ==
    [pc |-> "price", r |-> ResolverStart, log |-> << >>, err |-> Nil, item |-> NoItem]

\* currentPrice, err := acc.GetCurrentPrice(figi), one candle fetch at a time
TaskFetchCandles(f) ==
    /\ f \in DOMAIN task
    /\ task[f].pc = "price"
    /\ \E resp \in PipelineCandleResponses(f) :
        LET r == GetCurrentPriceStep(task[f].r, f, resp)
            log == Append(task[f].log, RespClass(resp))
        IN /\ task' = [task EXCEPT ![f].r = r, ![f].log = log, ![f].err = r.err,
                           ![f].pc = IF ~r.done THEN "price"
                                     ELSE IF r.err # Nil THEN "sendErr" ELSE "meta"]
           /\ producedErrs' = IF r.err # Nil THEN producedErrs \cup {r.err}
                              ELSE producedErrs
    /\ UNCHANGED <<pc, request, operations, aggOperations, balance, i, closed,
                   retReport, retErr, elapsed, sinceStart, recvLog, flt, resolver, grouper, builder, opsCall, fetched>>

\* mutant: the return after errorCh <- err is missing, the goroutine goes on to
\* build and send an item
TaskGetByFigi_missingReturn(f) ==
    /\ f \in DOMAIN task
    /\ task[f].pc = "meta"
    /\ \E instrument \in InstrumentResponses(f) :
        /\ task' = [task EXCEPT ![f].pc = "sendItem", ![f].err = instrument.err,
                            ![f].item = buildBalanceItem(f, aggOperations[f],
                                            [instrument EXCEPT !.FIGI = f, !.Currency = "RUB"],
                                            task[f].r.price)]
        /\ producedErrs' = IF instrument.err # Nil THEN producedErrs \cup {instrument.err}
                           ELSE producedErrs
    /\ UNCHANGED <<pc, request, operations, aggOperations, balance, i, closed,
                   retReport, retErr, elapsed, sinceStart, recvLog, flt, resolver,
                   grouper, builder, opsCall, fetched>>

\* instrument, err := acc.GetByFigi(figi), then the item is built
TaskGetByFigi(f) ==
    /\ f \in DOMAIN task
    /\ task[f].pc = "meta"
    /\ \E instrument \in InstrumentResponses(f) :
        IF instrument.err # Nil
        THEN /\ task' = [task EXCEPT ![f].err = instrument.err, ![f].pc = "sendErr"]
             /\ producedErrs' = producedErrs \cup {instrument.err}
        ELSE /\ task' = [task EXCEPT ![f].pc = "sendItem",
                            ![f].item = buildBalanceItem(f, aggOperations[f], instrument,
                                                         task[f].r.price)]
             /\ UNCHANGED producedErrs
    /\ UNCHANGED <<pc, request, operations, aggOperations, balance, i, closed,
                   retReport, retErr, elapsed, sinceStart, recvLog, flt, resolver, grouper, builder, opsCall, fetched>>

\* a send on balanceItemsCh or errorCh after the deferred close has run panics
TaskSendOnClosed(f) ==
    /\ f \in DOMAIN task
    /\ task[f].pc \in {"sendItem", "sendErr"}
    /\ closed
    /\ task' = [task EXCEPT ![f].pc = "panic"]
    /\ UNCHANGED <<pc, request, operations, aggOperations, balance, i, closed, retReport,
                   retErr, elapsed, sinceStart, recvLog, producedErrs, flt, resolver, grouper, builder, opsCall, fetched>>

-----------------------------------------------------------------------------
(* GetPortfolioBalance *)

\* mutant: the collection loop runs one iteration short
LoopBound_short(agg) == Cardinality(DOMAIN agg) - 1

\* len(aggOperations), the bound of the collection loop
LoopBound(agg) == Cardinality(DOMAIN agg)

\* mutant: the loop keeps receiving after the call has returned an error
Collecting_afterReturn == pc = "collect" \/ (pc = "returned" /\ ~retReport /\ closed)

\* the collector is inside the collection loop, blocked in the select
Collecting == pc = "collect"

\* the case <-time.After(20 * time.Second) is ready
TimerExpired == elapsed >= TimeoutSec

\* the statements after the collection loop, and the deferred closes
Finish(bal, ops) ==
    LET out == rollUp(bal, ops)
    IN /\ balance' = out.bal
       /\ closed' = TRUE
       /\ retErr' = Nil
       /\ retReport' = ~out.panic
       /\ pc' = IF out.panic THEN "panic" ELSE "returned"

\* GetPortfolioBalance from its entry to the first select
Call ==
    /\ pc = "start"
    /\ \E req \in Requests, opsResp \in OperationsResponses, portResp \in PortfolioResponses :
        LET got == GetOperations(req, opsResp, portResp)
            agg == aggOperationsByFigi(got.ops)
        IN /\ request' = req
           /\ fetched' = opsResp.ops
           /\ IF got.err # Nil
              THEN /\ pc' = "returned"
                   /\ retErr' = got.err
                   /\ producedErrs' = producedErrs \cup FetchErrs(req, opsResp, portResp)
                   /\ UNCHANGED <<operations, aggOperations, balance, task, closed, retReport>>
              ELSE /\ operations' = got.ops
                   /\ aggOperations' = agg
                   /\ task' = [f \in DOMAIN agg |-> TaskStart]
                   /\ UNCHANGED producedErrs
                   /\ IF LoopBound(agg) <= 0
                      THEN Finish(createEmptyBalance, got.ops)
                      ELSE /\ pc' = "collect"
                           /\ balance' = createEmptyBalance
                           /\ UNCHANGED <<closed, retReport, retErr>>
    /\ UNCHANGED <<i, elapsed, sinceStart, recvLog, flt, resolver, grouper, builder, opsCall>>

\* case balanceItem := <-balanceItemsCh, with the rest of the call when the
\* loop ends with it
ReceiveItem(f) ==
    /\ Collecting
    /\ f \in DOMAIN task
    /\ task[f].pc = "sendItem"
    /\ task' = [task EXCEPT ![f].pc = "done"]
    /\ recvLog' = Append(recvLog, f)
    /\ IF ~HasTotal(balance, task[f].item.Currency)
       THEN /\ balance' = [balance EXCEPT !.Items = Append(@, task[f].item)]
            /\ pc' = "panic"
            /\ closed' = TRUE
            /\ UNCHANGED <<i, elapsed, retReport, retErr>>
       ELSE LET bal == addItem(balance, task[f].item)
            IN /\ i' = i + 1
               /\ IF i + 1 >= LoopBound(aggOperations)
                  THEN Finish(bal, operations) /\ UNCHANGED elapsed
                  ELSE /\ balance' = bal
                       /\ elapsed' = 0
                       /\ UNCHANGED <<pc, closed, retReport, retErr>>
    /\ UNCHANGED <<request, operations, aggOperations, sinceStart, producedErrs,
                   flt, resolver, grouper, builder, opsCall, fetched>>

\* case err = <-errorCh: return nil, err
ReceiveErr(f) ==
    /\ Collecting
    /\ f \in DOMAIN task
    /\ task[f].pc = "sendErr"
    /\ task' = [task EXCEPT ![f].pc = "done"]
    /\ recvLog' = Append(recvLog, f)
    /\ pc' = "returned"
    /\ retErr' = task[f].err
    /\ retReport' = FALSE
    /\ closed' = TRUE
    /\ UNCHANGED <<request, operations, aggOperations, balance, i, elapsed, sinceStart,
                   producedErrs, flt, resolver, grouper, builder, opsCall, fetched>>

\* case <-time.After(20 * time.Second): return nil, fmt.Errorf("Timeout error")
SelectTimeout ==
    /\ Collecting
    /\ TimerExpired
    /\ pc' = "returned"
    /\ retErr' = TimeoutError
    /\ retReport' = FALSE
    /\ closed' = TRUE
    /\ UNCHANGED <<request, operations, aggOperations, balance, i, task, elapsed,
                   sinceStart, recvLog, producedErrs, flt, resolver, grouper, builder, opsCall, fetched>>

\* time passes while the collector waits in the select and no case of it is
\* ready: a blocked sender or an expired timer is served before the clock moves
Tick ==
    /\ pc = "collect"
    /\ ~TimerExpired
    /\ \A f \in DOMAIN task : task[f].pc \notin {"sendItem", "sendErr"}
    /\ elapsed' = elapsed + TickSec
    /\ sinceStart' = sinceStart + TickSec
    /\ UNCHANGED <<pc, request, operations, aggOperations, balance, i, task, closed,
                   retReport, retErr, recvLog, producedErrs, flt, resolver, grouper, builder, opsCall, fetched>>

-----------------------------------------------------------------------------
(* Specifications *)

FltIdle == [ops |-> << >>, criteria |-> NilCriteria, res |-> << >>, done |-> FALSE]
ResolverIdle == [r |-> ResolverStart, log |-> << >>]
GrouperIdle == [ops |-> << >>, agg |-> EmptyMap, done |-> FALSE]
OpsCallIdle ==
    [req |-> NoRequest, opsResp |-> [err |-> Nil, ops |-> << >>],
     portResp |-> [err |-> Nil, positions |-> << >>], portfolioFetched |-> FALSE,
     res |-> [err |-> Nil, ops |-> << >>], done |-> FALSE]
BuilderIdle ==
    [figi |-> "", ops |-> << >>, instrument |-> [err |-> Nil, FIGI |-> "", Currency |-> ""],
     price |-> 0, item |-> NoItem, done |-> FALSE]

InitPipeline ==
    /\ pc = "start"
    /\ request = NoRequest
    /\ operations = << >>
    /\ aggOperations = EmptyMap
    /\ balance = createEmptyBalance
    /\ i = 0
    /\ task = EmptyMap
    /\ closed = FALSE
    /\ retReport = FALSE
    /\ retErr = Nil
    /\ elapsed = 0
    /\ sinceStart = 0
    /\ recvLog = << >>
    /\ producedErrs = {}
    /\ fetched = << >>

Init ==
    /\ InitPipeline
    /\ flt = FltIdle /\ resolver = ResolverIdle
    /\ grouper = GrouperIdle /\ builder = BuilderIdle
    /\ opsCall = OpsCallIdle

Next ==
    \/ Call
    \/ \E f \in Figis \cup {""} : TaskFetchCandles(f)
    \/ \E f \in Figis \cup {""} : TaskGetByFigi(f)
    \/ \E f \in Figis \cup {""} : TaskSendOnClosed(f)
    \/ \E f \in Figis \cup {""} : ReceiveItem(f)
    \/ \E f \in Figis \cup {""} : ReceiveErr(f)
    \/ SelectTimeout
    \/ Tick

Spec == Init /\ [][Next]_vars


\* the select of the collection loop takes one of its ready cases
CollectorStep ==
    \/ SelectTimeout
    \/ \E f \in Figis \cup {""} : ReceiveItem(f)
    \/ \E f \in Figis \cup {""} : ReceiveErr(f)

\* the clock advances and a select with a ready case takes one; nothing is
\* assumed about the goroutines of balanceItemToCh, which may never send
SpecFair == Spec /\ WF_vars(Tick) /\ WF_vars(CollectorStep)

-----------------------------------------------------------------------------
(* filterOperations on its own: every operation list and criteria of the bounds *)

FilterCriteria ==
    { NilCriteria }
        \cup { Criteria(figis, status, types, exclude) :
                 figis \in { << >>, <<"A">>, <<"", "B">> },
                 status \in { "", "Done" },
                 types \in { << >>, <<"Buy", "BuyCard", "Sell">>,
                            <<"Dividend", "ServiceCommission">> },
                 exclude \in { << >>, <<"A">>, <<"B">> } }

InitFilter ==
    /\ InitPipeline
    /\ resolver = ResolverIdle
    /\ grouper = GrouperIdle /\ builder = BuilderIdle
    /\ opsCall = OpsCallIdle
    /\ flt \in { [ops |-> ops, criteria |-> c, res |-> << >>, done |-> FALSE] :
                   ops \in SeqsUpTo(OperationPool, MaxFilterOps), c \in FilterCriteria }

ApplyFilter ==
    /\ ~flt.done
    /\ flt' = [flt EXCEPT !.res = filterOperations(flt.ops, flt.criteria), !.done = TRUE]
    /\ UNCHANGED <<pipelineVars, resolver, grouper, builder, opsCall>>

NextFilter == ApplyFilter

SpecFilter == InitFilter /\ [][NextFilter]_vars

-----------------------------------------------------------------------------
(* GetCurrentPrice on its own, for figi "A": every sequence of candle responses *)

ResolverFetch ==
    /\ ~resolver.r.done
    /\ \E resp \in CandleResponses("A") :
        resolver' = [r |-> GetCurrentPriceStep(resolver.r, "A", resp),
                     log |-> Append(resolver.log, resp)]
    /\ UNCHANGED <<pipelineVars, flt, grouper, builder, opsCall>>

NextPrice == ResolverFetch

SpecPrice == Init /\ [][NextPrice]_vars


-----------------------------------------------------------------------------
(* Properties *)

Launched == DOMAIN task
Returned == pc = "returned"
\* the price or metadata call of the computation of f returned an error
Failed(f) == task[f].err # Nil
FailedErrs == { task[f].err : f \in { g \in Launched : Failed(g) } }
ItemFigis(bal) == [k \in 1..Len(bal.Items) |-> bal.Items[k].FIGI]

\* C1 as stated: when GetPortfolioBalance returns from the collection loop while
\* a launched computation has failed, it returns no Report and the error of a
\* failed computation.
C1_FanOutAbort_AsStated ==
    [][(Collecting /\ pc' = "returned" /\ \E f \in Launched : Failed(f))
          => (~retReport' /\ retErr' \in FailedErrs)]_vars

\* C1 amended: when GetPortfolioBalance returns from the collection loop while a
\* launched computation has failed, it returns no Report and an error, which is
\* the error of a failed computation or, when the timer of the select fired
\* first, the timeout error.
C1_FanOutAbort ==
    [][(Collecting /\ pc' = "returned" /\ \E f \in Launched : Failed(f))
          => (~retReport' /\ retErr' \in FailedErrs \cup {TimeoutError})]_vars

\* C1 witness: two computations were launched, A delivered its item, B failed,
\* and the call returned B's error and no Report.
C1_Witness ==
    /\ Returned /\ ~retReport
    /\ Launched = {"A", "B"}
    /\ recvLog = <<"A", "B">>
    /\ Failed("B") /\ ~Failed("A")
    /\ retErr = task["B"].err

\* C2 as stated: a call whose collection phase lasted more than 20 seconds after
\* collection started returned the timeout error and no Report.
C2_GlobalTimeout_AsStated ==
    (Returned /\ closed /\ sinceStart > TimeoutSec) => (~retReport /\ retErr = TimeoutError)

\* C3: a returned Report has exactly one BalanceLine per distinct non-empty
\* instrument identifier of the filtered operations, and no other line.
C3_OneLinePerInstrument ==
    (Returned /\ retReport) =>
        LET ids == { operations[k].FIGI : k \in 1..Len(operations) } \ {""}
        IN /\ { balance.Items[k].FIGI : k \in 1..Len(balance.Items) } = ids
           /\ Len(balance.Items) = Cardinality(ids)

\* C3 witness: a Report with the lines of two instruments was returned.
C3_Witness ==
    /\ Returned /\ retReport
    /\ Len(balance.Items) = 2
    /\ balance.Items[1].FIGI # balance.Items[2].FIGI

\* C4: the lines of the Report are in the order their items were received, and a
\* returned Report was built from exactly one received item per launched
\* computation.
C4_ArrivalOrder ==
    /\ (pc = "collect" \/ (Returned /\ retReport)) => ItemFigis(balance) = recvLog
    /\ (Returned /\ retReport) =>
          /\ Len(recvLog) = Cardinality(Launched)
          /\ { recvLog[k] : k \in 1..Len(recvLog) } = Launched

\* C4 witness: B's item arrived before A's and the Report lists B first.
C4_Witness ==
    /\ Returned /\ retReport
    /\ recvLog = <<"B", "A">>
    /\ ItemFigis(balance) = <<"B", "A">>

\* C5: once the call has returned an error (first error received, or timeout),
\* nothing more is received and the returned value never changes.
C5_NoReceiveAfterAbort ==
    [][(Returned /\ ~retReport) =>
          /\ pc' = pc /\ retErr' = retErr /\ retReport' = retReport
          /\ recvLog' = recvLog /\ balance' = balance /\ i' = i
          /\ \A f \in Launched : task'[f].pc = "done" => task[f].pc = "done"]_vars

\* C5 witness: after an error return a computation that was still running
\* produced its item, and the item was never received.
C5_Witness ==
    /\ Returned /\ ~retReport /\ retErr # Nil
    /\ \E f \in Launched :
          /\ task[f].pc = "panic"
          /\ task[f].item # NoItem
          /\ \A k \in 1..Len(recvLog) : recvLog[k] # f

C7_WindowEscalation ==
    /\ resolver.r.tried = [k \in 1..Len(resolver.log) |-> k]
    /\ Len(resolver.log) <= NumWindows
    /\ (/\ Len(resolver.log) = 3
        /\ resolver.log[1] = CandleOk(<< >>)
        /\ resolver.log[2] = CandleOk(<< >>)
        /\ RespClass(resolver.log[3]) = "usable")
       => /\ resolver.r.done
          /\ resolver.r.err = Nil
          /\ \E k \in 1..Len(resolver.log[3].candles) :
                /\ IsLatestAt(resolver.log[3].candles, k)
                /\ resolver.r.price = resolver.log[3].candles[k].ClosePrice

\* C7 witness: only the third window had candles, an older one first, and the
\* close of the latest one was returned.
C7_Witness ==
    /\ resolver.log = <<CandleOk(<< >>), CandleOk(<< >>),
                        CandleOk(<<Candle(1, 95000), Candle(2, 120000)>>)>>
    /\ resolver.r.done
    /\ resolver.r.price = 120000
    /\ resolver.r.err = Nil

\* C8: a failed candle fetch ends the resolution with that error and is the last
\* fetch; every window before the last fetched one had no usable data.
C8_FetchErrorAborts ==
    /\ \A k \in 1..(Len(resolver.log) - 1) : RespClass(resolver.log[k]) = "nodata"
    /\ (Len(resolver.log) > 0 /\ resolver.log[Len(resolver.log)].err # Nil)
          => /\ resolver.r.done
             /\ resolver.r.err = resolver.log[Len(resolver.log)].err
             /\ resolver.r.price = 0
    /\ (Len(resolver.log) > 0 /\ RespClass(resolver.log[Len(resolver.log)]) = "nodata"
            /\ Len(resolver.log) < NumWindows)
          => ~resolver.r.done

\* C8 witness: the first window had no usable data, the fetch of the second
\* failed, and the resolution ended with that error.
C8_Witness ==
    /\ Len(resolver.log) = 2
    /\ RespClass(resolver.log[1]) = "nodata"
    /\ resolver.log[2].err = ErrCandles("A")
    /\ resolver.r.done
    /\ resolver.r.err = ErrCandles("A")

NoDataThrice == <<"nodata", "nodata", "nodata">>

\* C9: a computation whose three windows all had no usable data and no failed
\* fetch ends its resolution with the price-unavailable error and sends no item;
\* a resolution that ends without error has a nonzero price; and a call that
\* returns with such a computation returns an error and no Report.
C9_PriceUnavailable ==
    /\ \A f \in Launched :
          /\ task[f].log = NoDataThrice =>
                /\ task[f].r.done
                /\ task[f].err = PriceUnavailable(f)
                /\ task[f].item = NoItem
                /\ task[f].pc \in {"sendErr", "done", "panic"}
          /\ (task[f].r.done /\ task[f].r.err = Nil) => task[f].r.price # 0
    /\ (Returned /\ \E f \in Launched : task[f].log = NoDataThrice)
          => (~retReport /\ retErr # Nil)

\* C9 witness: no window of A had a usable close, and the call returned A's
\* price-unavailable error.
C9_Witness ==
    /\ Returned /\ ~retReport
    /\ "A" \in Launched
    /\ task["A"].log = NoDataThrice
    /\ retErr = PriceUnavailable("A")

\* s is a subsequence of t: its elements are elements of t at increasing indices
IsSubseq(s, t) ==
    \E m \in [1..Len(s) -> 1..Len(t)] :
        /\ \A k \in 1..Len(s) : s[k] = t[m[k]]
        /\ \A j, k \in 1..Len(s) : j < k => m[j] < m[k]

\* C10: the list filterOperations returns is a subsequence of its input, in
\* input order, and is empty when the criteria is nil.
C10_FilterSubsequence ==
    flt.done =>
        /\ IsSubseq(flt.res, flt.ops)
        /\ flt.criteria.isNil => flt.res = << >>

\* C10 witness: two different operations out of three were kept.
C10_Witness ==
    /\ flt.done
    /\ Len(flt.ops) = 3
    /\ Len(flt.res) = 2
    /\ flt.res[1] # flt.res[2]
    /\ ~flt.criteria.isNil


-----------------------------------------------------------------------------
(* aggOperationsByFigi on its own: every operation list of the bounds *)

InitGrouper ==
    /\ InitPipeline
    /\ flt = FltIdle /\ resolver = ResolverIdle /\ builder = BuilderIdle
    /\ opsCall = OpsCallIdle
    /\ grouper \in { [ops |-> ops, agg |-> EmptyMap, done |-> FALSE] :
                       ops \in SeqsUpTo(OperationPool, MaxGroupOps) }

ApplyGrouper ==
    /\ ~grouper.done
    /\ grouper' = [grouper EXCEPT !.agg = aggOperationsByFigi(grouper.ops), !.done = TRUE]
    /\ UNCHANGED <<pipelineVars, flt, resolver, builder, opsCall>>

NextGrouper == ApplyGrouper

SpecGrouper == InitGrouper /\ [][NextGrouper]_vars

-----------------------------------------------------------------------------
(* The item builder on its own, for figi "A": every operation list of the bounds *)

\* the operations handed to the builder are drawn from
BuilderPool ==
    { Op("A", "Done", "Buy", "RUB", -1000000, -5000, 10),
      Op("A", "Done", "BuyCard", "RUB", -250004, -1254, 3),
      Op("A", "Done", "Sell", "RUB", 600000, -3000, 15),
      Op("A", "Done", "Dividend", "RUB", 20005, 0, 0),
      Op("A", "Done", "TaxDividend", "RUB", -2604, 0, 0),
      Op("A", "Done", "Coupon", "RUB", 7000, -100, 4),
      Op("B", "Done", "Buy", "RUB", -300000, -1500, 3) }

\* the prices the resolver hands to the builder: 120.00 and 33.335
BuilderPrices == { 120000, 33335 }

InitBuilder ==
    /\ InitPipeline
    /\ flt = FltIdle /\ resolver = ResolverIdle /\ grouper = GrouperIdle
    /\ opsCall = OpsCallIdle
    /\ builder \in { [BuilderIdle EXCEPT !.figi = "A", !.ops = ops, !.price = p,
                         !.instrument = [err |-> Nil, FIGI |-> "A", Currency |-> "RUB"]] :
                       ops \in SeqsUpTo(BuilderPool, MaxBuilderOps), p \in BuilderPrices }

ApplyBuilder ==
    /\ ~builder.done
    /\ builder' = [builder EXCEPT
                      !.item = buildBalanceItem(builder.figi, builder.ops,
                                                builder.instrument, builder.price),
                      !.done = TRUE]
    /\ UNCHANGED <<pipelineVars, flt, resolver, grouper, opsCall>>

NextBuilder == ApplyBuilder

SpecBuilder == InitBuilder /\ [][NextBuilder]_vars

-----------------------------------------------------------------------------
(* GetOperations on its own: every request, operation list and portfolio of the bounds *)

InitOpsCall ==
    /\ InitPipeline
    /\ flt = FltIdle /\ resolver = ResolverIdle
    /\ grouper = GrouperIdle /\ builder = BuilderIdle
    /\ opsCall \in { [OpsCallIdle EXCEPT !.req = req, !.opsResp = opsResp,
                                           !.portResp = portResp] :
                       req \in Requests,
                       opsResp \in { [err |-> ErrOperations, ops |-> << >>] }
                           \cup { [err |-> Nil, ops |-> ops] :
                                    ops \in SeqsUpTo(OperationPool, MaxCallOps) },
                       portResp \in PortfolioResponses }

ApplyOpsCall ==
    /\ ~opsCall.done
    /\ opsCall' = [opsCall EXCEPT
                      !.res = GetOperations(opsCall.req, opsCall.opsResp, opsCall.portResp),
                      !.portfolioFetched = PortfolioFetched(opsCall.req, opsCall.opsResp),
                      !.done = TRUE]
    /\ UNCHANGED <<pipelineVars, flt, resolver, grouper, builder>>

NextOpsCall == ApplyOpsCall

SpecOpsCall == InitOpsCall /\ [][NextOpsCall]_vars

-----------------------------------------------------------------------------
(* Properties of the Operation Filter / Aggregator *)

Range(s) == { s[k] : k \in 1..Len(s) }

\* the four conditions of the filter contract, on sets instead of slices
Keep(oper, criteria) ==
    /\ (criteria.FIGIs = << >> \/ oper.FIGI \in Range(criteria.FIGIs))
    /\ (criteria.Status = "" \/ oper.Status = criteria.Status)
    /\ (criteria.OperationTypes = << >> \/ oper.OperationType \in Range(criteria.OperationTypes))
    /\ (criteria.ExcludeFIGIs = << >> \/ oper.FIGI \notin Range(criteria.ExcludeFIGIs))

\* C11: with a non-nil criteria the result of filterOperations is the input
\* with exactly the operations removed that fail one of the four conditions
\* (instrument id listed or list empty, status equal or empty, kind listed or
\* list empty, instrument id not excluded or exclude list empty).
C11_FilterConjunction ==
    (flt.done /\ ~flt.criteria.isNil) =>
        /\ flt.res = SelectSeq(flt.ops, LAMBDA o : Keep(o, flt.criteria))
        /\ \A k \in 1..Len(flt.ops) :
              Keep(flt.ops[k], flt.criteria) <=> flt.ops[k] \in Range(flt.res)

\* C11 witness: all four criteria fields are set, one operation passes the
\* first three conditions and is dropped by the exclusion alone, another one
\* is kept.
C11_Witness ==
    /\ flt.done /\ ~flt.criteria.isNil
    /\ flt.criteria.FIGIs # << >> /\ flt.criteria.Status # ""
    /\ flt.criteria.OperationTypes # << >> /\ flt.criteria.ExcludeFIGIs # << >>
    /\ flt.res # << >>
    /\ \E k \in 1..Len(flt.ops) :
          /\ flt.ops[k] \notin Range(flt.res)
          /\ flt.ops[k].FIGI \in Range(flt.criteria.FIGIs)
          /\ flt.ops[k].Status = flt.criteria.Status
          /\ flt.ops[k].OperationType \in Range(flt.criteria.OperationTypes)
          /\ flt.ops[k].FIGI \in Range(flt.criteria.ExcludeFIGIs)

\* C12: the groups of aggOperationsByFigi are keyed by the non-empty
\* instrument ids of the input; the group of an id is the input restricted to
\* the operations of that id, in input order; there is no group for the empty
\* id and no empty group.
C12_GroupByInstrument ==
    grouper.done =>
        /\ DOMAIN grouper.agg = { o.FIGI : o \in Range(grouper.ops) } \ {""}
        /\ \A f \in DOMAIN grouper.agg :
              /\ grouper.agg[f] = SelectSeq(grouper.ops, LAMBDA o : o.FIGI = f)
              /\ grouper.agg[f] # << >>
        /\ \A f, g \in DOMAIN grouper.agg :
              f # g => Range(grouper.agg[f]) \cap Range(grouper.agg[g]) = {}

\* C12 witness: two different operations of A around an operation without an
\* instrument id; A's group holds the two in input order.
C12_Witness ==
    /\ grouper.done
    /\ Len(grouper.ops) = 3
    /\ grouper.ops[1].FIGI = "A" /\ grouper.ops[2].FIGI = "" /\ grouper.ops[3].FIGI = "A"
    /\ grouper.ops[1] # grouper.ops[3]
    /\ DOMAIN grouper.agg = {"A"}
    /\ grouper.agg["A"] = <<grouper.ops[1], grouper.ops[3]>>

-----------------------------------------------------------------------------
(* Properties of the Balance Item Builder *)

\* what the operations of the builder's instrument with a kind in kinds add up
\* to, each operation counted with val(operation)
Total(ops, figi, kinds, val(_)) ==
    Sum([k \in 1..Len(ops) |->
            IF ops[k].FIGI = figi /\ ops[k].OperationType \in kinds THEN val(ops[k]) ELSE 0])

AbsPayment(o) == Abs(o.Payment)
AbsCommission(o) == Abs(o.Commission)
QuantityOf(o) == o.Quantity

BuyKinds == {"Buy", "BuyCard"}
NetQuantity(ops, figi) ==
    Total(ops, figi, BuyKinds, QuantityOf) - Total(ops, figi, {"Sell"}, QuantityOf)

\* the operations ops in the order given by the permutation p of their indices
Permuted(ops, p) == [k \in 1..Len(ops) |-> ops[p[k]]]

\* C13: the line's PortfolioQuantity is max(0, buy quantities - sell
\* quantities), the clamp applied once to the net, so a negative net gives
\* exactly 0; and building from the same operations in any other order gives
\* the same quantity.
C13_QuantityClamp ==
    builder.done =>
        LET net == NetQuantity(builder.ops, builder.figi)
        IN /\ builder.item.PortfolioQuantity = (IF net > 0 THEN net ELSE 0)
           /\ net < 0 => builder.item.PortfolioQuantity = 0
           /\ \A p \in Permutations(1..Len(builder.ops)) :
                 buildBalanceItem(builder.figi, Permuted(builder.ops, p),
                                  builder.instrument, builder.price).PortfolioQuantity
                     = builder.item.PortfolioQuantity

\* C13 witness: a sell of 15 units comes before a buy of 10 units; the net is
\* -5 and the line's quantity is 0.
C13_Witness ==
    /\ builder.done
    /\ Len(builder.ops) = 2
    /\ builder.ops[1].OperationType = "Sell" /\ builder.ops[1].FIGI = builder.figi
    /\ builder.ops[2].OperationType = "Buy" /\ builder.ops[2].FIGI = builder.figi
    /\ NetQuantity(builder.ops, builder.figi) = -5
    /\ builder.item.PortfolioQuantity = 0

\* every monetary field of a line is a whole number of hundredths
IsRounded(x) == x % 10 = 0

\* C14: the line's BalanceAmount is round2(PortfolioAmount + DividendAmount -
\* DividendTaxAmount - OperationAmount - BrokerCommissionAmount) over the
\* rounded fields of the same line, and PortfolioAmount is
\* round2(PortfolioQuantity * CurrentPrice).
C14_BalanceAmount ==
    builder.done =>
        LET item == builder.item
        IN /\ item.BalanceAmount =
                 Round2(item.PortfolioAmount + item.DividendAmount - item.DividendTaxAmount
                        - item.OperationAmount - item.BrokerCommissionAmount)
           /\ item.PortfolioAmount = Round2(item.PortfolioQuantity * item.CurrentPrice)
           /\ item.CurrentPrice = builder.price
           /\ \A x \in { item.BalanceAmount, item.PortfolioAmount, item.DividendAmount,
                         item.DividendTaxAmount, item.OperationAmount,
                         item.BrokerCommissionAmount } : IsRounded(x)

\* C14 witness: a card buy of 3 units for 250.004 with commission 1.254 at
\* price 120.00: the rounded fields give 360.00 - 250.00 - 1.25 = 108.75, the
\* unrounded accumulators would give 108.74.
C14_Witness ==
    /\ builder.done
    /\ Len(builder.ops) = 1
    /\ builder.ops[1].OperationType = "BuyCard" /\ builder.ops[1].FIGI = builder.figi
    /\ builder.price = 120000
    /\ builder.item.OperationAmount = 250000
    /\ builder.item.BrokerCommissionAmount = 1250
    /\ builder.item.PortfolioAmount = 360000
    /\ builder.item.BalanceAmount = 108750

LineKinds == {"Buy", "BuyCard", "Sell", "Dividend", "TaxDividend"}

\* C17: OperationAmount is the |payment| of Buy and BuyCard minus the |payment|
\* of Sell, BrokerCommissionAmount the |commission| of Buy, BuyCard and Sell,
\* DividendAmount the |payment| of Dividend, DividendTaxAmount the |payment| of
\* TaxDividend, each as the line reports it, to two decimals; operations of
\* another kind change no field; one buy of 10 units for 1000 with commission 5
\* at price 120 gives 1000, 5, quantity 10, portfolio 1200, balance 195.
C17_SignConventions ==
    builder.done =>
        LET item == builder.item
            ops == builder.ops
            f == builder.figi
        IN /\ item.OperationAmount =
                 Round2(Total(ops, f, BuyKinds, AbsPayment) - Total(ops, f, {"Sell"}, AbsPayment))
           /\ item.BrokerCommissionAmount =
                 Round2(Total(ops, f, BuyKinds \cup {"Sell"}, AbsCommission))
           /\ item.DividendAmount = Round2(Total(ops, f, {"Dividend"}, AbsPayment))
           /\ item.DividendTaxAmount = Round2(Total(ops, f, {"TaxDividend"}, AbsPayment))
           /\ (\A k \in 1..Len(ops) : IsRounded(ops[k].Payment) /\ IsRounded(ops[k].Commission))
                 => /\ item.OperationAmount =
                          Total(ops, f, BuyKinds, AbsPayment) - Total(ops, f, {"Sell"}, AbsPayment)
                    /\ item.BrokerCommissionAmount =
                          Total(ops, f, BuyKinds \cup {"Sell"}, AbsCommission)
                    /\ item.DividendAmount = Total(ops, f, {"Dividend"}, AbsPayment)
                    /\ item.DividendTaxAmount = Total(ops, f, {"TaxDividend"}, AbsPayment)
           /\ item = buildBalanceItem(f, SelectSeq(ops, LAMBDA o : o.OperationType \in LineKinds),
                                      builder.instrument, builder.price)
           /\ (ops = <<Op("A", "Done", "Buy", "RUB", -1000000, -5000, 10)>>
                    /\ builder.price = 120000)
                 => /\ item.OperationAmount = 1000000
                    /\ item.BrokerCommissionAmount = 5000
                    /\ item.PortfolioQuantity = 10
                    /\ item.PortfolioAmount = 1200000
                    /\ item.BalanceAmount = 195000

\* C17 witness: a buy, a sell and an operation of another kind that carries a
\* payment, a commission and a quantity; the sell reduces OperationAmount and
\* adds its commission.
C17_Witness ==
    /\ builder.done
    /\ builder.ops = <<Op("A", "Done", "Buy", "RUB", -1000000, -5000, 10),
                       Op("A", "Done", "Coupon", "RUB", 7000, -100, 4),
                       Op("A", "Done", "Sell", "RUB", 600000, -3000, 15)>>
    /\ builder.item.OperationAmount = 400000
    /\ builder.item.BrokerCommissionAmount = 8000
    /\ builder.item.PortfolioQuantity = 0
    /\ builder.item.DividendAmount = 0

-----------------------------------------------------------------------------
(* Properties of the Total Roll-up and of the request filtering *)

\* the BalanceAmount of the Report's lines in currency c
LinesBalance(bal, c) ==
    Sum([k \in 1..Len(bal.Items) |->
            IF bal.Items[k].Currency = c THEN bal.Items[k].BalanceAmount ELSE 0])

\* the absolute payments of the operations of one kind in currency c
Adjustments(ops, kind, c) ==
    Sum([k \in 1..Len(ops) |->
            IF ops[k].OperationType = kind /\ ops[k].Currency = c
            THEN Abs(ops[k].Payment) ELSE 0])

\* C15: in a returned Report the total BalanceAmount of every currency is the
\* sum of the BalanceAmount of the Report's lines in that currency, minus the
\* absolute payments of the ServiceCommission operations, plus those of the
\* TaxBack operations of that currency in the filtered operation list, rounded
\* once.
C15_CurrencyTotals ==
    (Returned /\ retReport) =>
        \A c \in DOMAIN balance.Total :
            balance.Total[c].BalanceAmount =
                Round2(LinesBalance(balance, c)
                       - Adjustments(operations, "ServiceCommission", c)
                       + Adjustments(operations, "TaxBack", c))

\* C15 witness: the Report has A's line in RUB with balance 195.00 and the
\* operations hold a tax refund of 13.005 RUB without instrument id; the RUB
\* total is 208.01.
C15_Witness ==
    /\ Returned /\ retReport
    /\ Len(balance.Items) = 1
    /\ balance.Items[1].Currency = "RUB"
    /\ balance.Items[1].BalanceAmount = 195000
    /\ Adjustments(operations, "TaxBack", "RUB") = 13005
    /\ balance.Total["RUB"].BalanceAmount = 208010

\* C16: a returned Report has a total for RUB, USD and EUR, and the total of
\* one of them that has no line and no adjustment operation is zero in all
\* four fields.
C16_SeededTotals ==
    (Returned /\ retReport) =>
        \A c \in {"RUB", "USD", "EUR"} :
            /\ c \in DOMAIN balance.Total
            /\ (/\ \A k \in 1..Len(balance.Items) : balance.Items[k].Currency # c
                /\ \A k \in 1..Len(operations) :
                      operations[k].OperationType \in {"ServiceCommission", "TaxBack"}
                          => operations[k].Currency # c)
                  => balance.Total[c] = ZeroTotal

\* C16 witness: a Report whose only line is in RUB; the USD and EUR totals are
\* present and zero, the RUB total is not.
C16_Witness ==
    /\ Returned /\ retReport
    /\ Len(balance.Items) = 1
    /\ balance.Items[1].Currency = "RUB"
    /\ balance.Total["RUB"] # ZeroTotal
    /\ balance.Total["USD"] = ZeroTotal
    /\ balance.Total["EUR"] = ZeroTotal

HasFigiIn(ops, figis) == \E k \in 1..Len(ops) : ops[k].FIGI \in figis

\* C18: with a non-empty exclude list no computation is launched for an
\* excluded instrument, no line of the balance is of an excluded instrument,
\* and neither the operation list the roll-up reads nor any list handed to a
\* builder holds an operation of an excluded instrument.
C18_ExcludedInstruments ==
    request.ExcludeFIGIs # << >> =>
        LET excluded == Range(request.ExcludeFIGIs)
        IN /\ Launched \cap excluded = {}
           /\ \A k \in 1..Len(balance.Items) : balance.Items[k].FIGI \notin excluded
           /\ ~HasFigiIn(operations, excluded)
           /\ \A f \in DOMAIN aggOperations : ~HasFigiIn(aggOperations[f], excluded)
           /\ \A f \in Launched : task[f].item.FIGI \notin excluded

\* C18 witness: B is excluded, the fetched operations hold a Done operation of
\* B and one of A, and the Report has the line of A only.
C18_Witness ==
    /\ Returned /\ retReport
    /\ request.ExcludeFIGIs = <<"B">>
    /\ \E k \in 1..Len(fetched) : fetched[k].FIGI = "B" /\ fetched[k].Status = "Done"
    /\ ItemFigis(balance) = <<"A">>
    /\ Launched = {"A"}

\* C19: every operation in the list the roll-up reads and in every list handed
\* to a builder has status Done; the builders' operations are operations of
\* the roll-up's list, and those are operations that were fetched.
C19_OnlyDone ==
    /\ \A k \in 1..Len(operations) : operations[k].Status = "Done"
    /\ \A f \in DOMAIN aggOperations :
          \A k \in 1..Len(aggOperations[f]) :
              /\ aggOperations[f][k].Status = "Done"
              /\ aggOperations[f][k] \in Range(operations)
    /\ \A k \in 1..Len(operations) : operations[k] \in Range(fetched)

\* C19 witness: the fetched operations hold a declined buy of B and a Done buy
\* of A; a Report with the line of A only was returned and B was never
\* launched.
C19_Witness ==
    /\ Returned /\ retReport
    /\ request.ExcludeFIGIs = << >>
    /\ \E k \in 1..Len(fetched) : fetched[k].FIGI = "B" /\ fetched[k].Status = "Decline"
    /\ ItemFigis(balance) = <<"A">>
    /\ Launched = {"A"}

Occurrences(s, x) == Cardinality({ k \in 1..Len(s) : s[k] = x })

\* C20: a launched computation delivers at most one message; it holds an error
\* or a built item, never both; it offers an error only when a call of it
\* failed and an item only when none failed; and a line of the balance is
\* never of a computation that failed.
C20_OneMessagePerTask ==
    \A f \in Launched :
        /\ Occurrences(recvLog, f) <= 1
        /\ Occurrences(ItemFigis(balance), f) <= 1
        /\ task[f].pc = "done" <=> Occurrences(recvLog, f) = 1
        /\ ~(task[f].err # Nil /\ task[f].item # NoItem)
        /\ task[f].pc = "sendErr" => task[f].err # Nil
        /\ task[f].pc = "sendItem" => (task[f].err = Nil /\ task[f].item # NoItem)
        /\ task[f].err # Nil => Occurrences(ItemFigis(balance), f) = 0
        /\ task[f].pc \in {"price", "meta"} => (task[f].err = Nil /\ task[f].item = NoItem)

\* C20 witness: A delivered its item, then B, whose metadata call failed,
\* delivered that error and nothing else.
C20_Witness ==
    /\ Launched = {"A", "B"}
    /\ recvLog = <<"A", "B">>
    /\ ItemFigis(balance) = <<"A">>
    /\ task["A"].pc = "done" /\ task["A"].err = Nil /\ task["A"].item # NoItem
    /\ task["B"].pc = "done" /\ task["B"].err = ErrMeta("B") /\ task["B"].item = NoItem
    /\ retErr = ErrMeta("B")

-----------------------------------------------------------------------------
(* Properties of GetOperations *)

\* C22: with ForPortfolio set and the operations fetched, the positions are
\* fetched and the result is the fetched list restricted to the Done,
\* non-excluded operations whose instrument id is empty or that of a position,
\* also for a portfolio without positions; with the flag off the positions are
\* not fetched and the result is the Done, non-excluded operations.
C22_PortfolioScope ==
    opsCall.done =>
        LET req == opsCall.req
            positions == Range(opsCall.portResp.positions)
            excluded == Range(req.ExcludeFIGIs)
            Base(o) == o.Status = "Done" /\ o.FIGI \notin excluded
            InScope(o) == Base(o) /\ (o.FIGI = "" \/ o.FIGI \in positions)
        IN /\ ~req.ForPortfolio =>
                 /\ ~opsCall.portfolioFetched
                 /\ opsCall.res.err = opsCall.opsResp.err
                 /\ opsCall.res.err = Nil =>
                       opsCall.res.ops = SelectSeq(opsCall.opsResp.ops, Base)
           /\ (req.ForPortfolio /\ opsCall.opsResp.err = Nil) =>
                 /\ opsCall.portfolioFetched
                 /\ opsCall.res.err = opsCall.portResp.err
                 /\ opsCall.res.err = Nil =>
                       opsCall.res.ops = SelectSeq(opsCall.opsResp.ops, InScope)

\* C22 witness: the request is scoped to a portfolio without positions; of a
\* Done buy of A and a service commission without instrument id only the
\* commission is left.
C22_Witness ==
    /\ opsCall.done
    /\ opsCall.req.ForPortfolio
    /\ opsCall.portfolioFetched
    /\ opsCall.portResp = [err |-> Nil, positions |-> << >>]
    /\ opsCall.opsResp.ops = <<Op("A", "Done", "Buy", "RUB", -1000000, -5000, 10),
                               Op("", "Done", "ServiceCommission", "RUB", -99000, 0, 0)>>
    /\ opsCall.res = [err |-> Nil,
                      ops |-> <<Op("", "Done", "ServiceCommission", "RUB", -99000, 0, 0)>>]

-----------------------------------------------------------------------------
(* Properties of the Price Resolver: the candle looked at *)

\* C23: of the candles of a fetched window only the one with the latest
\* timestamp counts: when its close is nonzero the resolution ends with that
\* close; when its close is zero the resolver goes on to the next window and
\* takes no price from this one, whatever the older candles hold.
C23_LatestCandleOnly ==
    \A n \in 1..Len(resolver.log) :
        LET candles == resolver.log[n].candles
        IN resolver.log[n].err = Nil =>
              \A k \in 1..Len(candles) :
                  IsLatestAt(candles, k) =>
                      IF candles[k].ClosePrice # 0
                      THEN /\ n = Len(resolver.log)
                           /\ resolver.r.done /\ resolver.r.err = Nil
                           /\ resolver.r.price = candles[k].ClosePrice
                      ELSE /\ resolver.r.w > n
                           /\ n = Len(resolver.log) => resolver.r.price = 0
                           /\ (n = Len(resolver.log) /\ n < NumWindows) => ~resolver.r.done

\* C23 witness: the first window's latest candle has close 0 and an older one
\* close 95.00; the resolver went on and returned the close 120.00 of the
\* second window's latest candle.
C23_Witness ==
    /\ resolver.log = <<CandleOk(<<Candle(2, 0), Candle(1, 95000)>>),
                        CandleOk(<<Candle(1, 95000), Candle(2, 120000)>>)>>
    /\ resolver.r.done /\ resolver.r.err = Nil
    /\ resolver.r.price = 120000

-----------------------------------------------------------------------------
(* Properties of the collection phase: termination, channels, totals *)

\* C21: a call that has entered the collection loop eventually returns, a
\* Report or an error, also when a computation never sends.
C21_AlwaysReturns == Collecting ~> Returned

\* the collection loop is always left, by a return or by a runtime panic
CollectionEnds == Collecting ~> (Returned \/ pc = "panic")

\* C24: no computation ever sends on balanceItemsCh or errorCh after the
\* deferred close of the two channels has run.
C24_NoSendOnClosed == \A f \in Launched : task[f].pc # "panic"

\* C25: the call never accesses the total of a currency that has no entry in
\* balance.Total.Currencies, neither for a received line nor for a
\* ServiceCommission or TaxBack operation.
C25_TotalsExist == pc # "panic"

RECURSIVE SumOver(_, _)
SumOver(S, val) ==
    IF S = {} THEN 0
    ELSE LET x == CHOOSE y \in S : TRUE
         IN val[x] + SumOver(S \ {x}, val)

\* the totals of currency c as a function of the computations' lines and the
\* filtered operations, without reference to the order of arrival
ExpectedTotal(c) ==
    LET mine == { f \in Launched : task[f].item.Currency = c }
    IN [BalanceAmount |->
            Round2(SumOver(mine, [f \in mine |-> task[f].item.BalanceAmount])
                   - Adjustments(operations, "ServiceCommission", c)
                   + Adjustments(operations, "TaxBack", c)),
        ServiceCommissionAmount |-> Round2(Adjustments(operations, "ServiceCommission", c)),
        TaxBack |-> Round2(Adjustments(operations, "TaxBack", c)),
        PortfolioAmount |->
            Round2(SumOver(mine, [f \in mine |-> task[f].item.PortfolioAmount]))]

\* C26: a returned Report is determined by the filtered operations and by the
\* price and metadata each computation got, whatever the order of arrival: its
\* lines are the lines the computations built, one each, each line is the one
\* the builder gives for that computation's operations, price and currency,
\* and its totals are the order-free sums over these lines and the adjustment
\* operations; only the order of Items follows the arrival.
C26_InterleavingIndependent ==
    (Returned /\ retReport) =>
        /\ Range(balance.Items) = { task[f].item : f \in Launched }
        /\ Len(balance.Items) = Cardinality(Launched)
        /\ \A f \in Launched :
              task[f].item =
                  buildBalanceItem(f, SelectSeq(operations, LAMBDA o : o.FIGI = f),
                                   [FIGI |-> f, Currency |-> task[f].item.Currency],
                                   task[f].r.price)
        /\ \A c \in DOMAIN balance.Total : balance.Total[c] = ExpectedTotal(c)

\* C26 witness: B's line arrived before A's, both lines are in RUB and differ,
\* and the RUB total is the sum of the two.
C26_Witness ==
    /\ Returned /\ retReport
    /\ recvLog = <<"B", "A">>
    /\ task["A"].item.Currency = "RUB" /\ task["B"].item.Currency = "RUB"
    /\ task["A"].item.BalanceAmount # 0 /\ task["B"].item.BalanceAmount # 0
    /\ balance.Total["RUB"].BalanceAmount =
          task["A"].item.BalanceAmount + task["B"].item.BalanceAmount

====
